---- MODULE Spec2Model ----
(***************************************************************************)
(* A model of sudoku_puzzle.py (class SudokuPuzzle).                       *)
(*                                                                         *)
(* A Python str is a sequence of one-character strings, so that the        *)
(* substring test `a in b`, slicing, concatenation, str(int) and int(str)  *)
(* are computed and not assumed.  A grid cell is therefore <<>> (the empty *)
(* string '') or <<"A">>.  A Python list of rows is a sequence of row      *)
(* addresses into `heap`, so that copying versus aliasing of rows is       *)
(* visible.  Row and column indices are 0-based as in the code; the        *)
(* operators add 1 when they index a TLA+ sequence.                        *)
(***************************************************************************)
EXTENDS Integers, Sequences, FiniteSets, TLC

VARIABLES heap, self, pc, op, move_arg, new_puzzle, ret, moves

vars == <<heap, self, pc, op, move_arg, new_puzzle, ret, moves>>

----------------------------------------------------------------------------
(* Module constants of the source.                                         *)

CHARS == <<"A","B","C","D","E","F","G","H","I","J","K","L","M",
           "N","O","P","Q","R","S","T","U","V","W","X","Y","Z">>

NUMBERS == <<"1","2","3","4","5","6","7","8","9","0">>

----------------------------------------------------------------------------
(* Python primitives used by the source.                                   *)

Min(a, b) == IF a < b THEN a ELSE b

\* s[:k] for a str or list s and k >= 0
Prefix(s, k) == SubSeq(s, 1, Min(k, Len(s)))

\* `a in b` for two str: substring containment ('' is in every str)
StrIn(a, b) == \E i \in 0..(Len(b) - Len(a)) : SubSeq(b, i + 1, i + Len(a)) = a

\* `x in lst` for a list: element membership
ListIn(x, lst) == \E i \in 1..Len(lst) : lst[i] = x

\* list(s) for a str s: the list of its one-character strings
ListOfStr(s) == [i \in 1..Len(s) |-> <<s[i]>>]

\* int(sqrt(k)) for k >= 0
IntSqrt(k) == CHOOSE m \in 0..k : m * m <= k /\ (m + 1) * (m + 1) > k

\* code point order of the capital letters (index in CHARS), 0 for others
Ord(ch) == IF \E i \in 1..Len(CHARS) : CHARS[i] = ch
           THEN CHOOSE i \in 1..Len(CHARS) : CHARS[i] = ch
           ELSE 0

\* a < b for two str (lexicographic)
RECURSIVE StrLess(_, _)
StrLess(a, b) ==
    IF b = <<>> THEN FALSE
    ELSE IF a = <<>> THEN TRUE
    ELSE IF Ord(a[1]) # Ord(b[1]) THEN Ord(a[1]) < Ord(b[1])
    ELSE StrLess(Tail(a), Tail(b))

\* insertion of x in front of the first element greater than x
RECURSIVE InsertSorted(_, _)
InsertSorted(x, lst) ==
    IF lst = <<>> THEN <<x>>
    ELSE IF StrLess(x, lst[1]) THEN <<x>> \o lst
    ELSE <<lst[1]>> \o InsertSorted(x, Tail(lst))

\* sorted(lst) for a list of str
RECURSIVE Sorted(_)
Sorted(lst) == IF lst = <<>> THEN <<>>
               ELSE InsertSorted(lst[Len(lst)], Sorted(SubSeq(lst, 1, Len(lst) - 1)))

DigitChars == <<"0","1","2","3","4","5","6","7","8","9">>

\* str(k) for an int k >= 0: its decimal digits
RECURSIVE StrOfInt(_)
StrOfInt(k) == IF k < 10 THEN <<DigitChars[k + 1]>>
               ELSE StrOfInt(k \div 10) \o <<DigitChars[(k % 10) + 1]>>

DigitValue(ch) == (CHOOSE i \in 1..10 : DigitChars[i] = ch) - 1

\* int(s) for a non-empty str of decimal digits
RECURSIVE IntOfStr(_)
IntOfStr(s) == IF Len(s) = 1 THEN DigitValue(s[1])
               ELSE 10 * IntOfStr(SubSeq(s, 1, Len(s) - 1)) + DigitValue(s[Len(s)])

\* lst.index(x): 0-based position of the first occurrence
IndexOf(lst, x) == (CHOOSE i \in 1..Len(lst) :
                       lst[i] = x /\ \A j \in 1..(i - 1) : lst[j] # x) - 1

----------------------------------------------------------------------------
(* Objects.  A SudokuPuzzle is its _grid: a sequence of row addresses;     *)
(* _n = len(grid) is derived from it (line 47).                            *)

\* the grid as a value: list of lists of str
GridOf(h, g) == [i \in 1..Len(g) |-> h[g[i]]]

\* self._n
SizeOf(g) == Len(g)

\* the first free row address
NextAddr(h) == IF DOMAIN h = {} THEN 1
               ELSE (CHOOSE a \in DOMAIN h : \A b \in DOMAIN h : b <= a) + 1

----------------------------------------------------------------------------
(* is_solved: lines 138-166.  G is the value of self._grid.                *)

\* a slip in line 151: row i is read where column i is meant
ColumnReadsRow(G, i) == G[i + 1]

\* [row[i] for row in self._grid]
Column(G, i) == [k \in 1..Len(G) |-> G[k][i + 1]]

\* [self._grid[x + i][y + j] for i in range(m) for j in range(m)]
SubsquareItems(G, x, y, m) ==
    [k \in 1..(m * m) |-> G[x + ((k - 1) \div m) + 1][y + ((k - 1) % m) + 1]]

\* range(0, n, m)
RangeStep(n, m) == {x \in 0..(n - 1) : x % m = 0}

NoEmptyCells(G) == \A r \in 1..Len(G) : ~ListIn(<<>>, G[r])

RowsComplete(G) ==
    \A r \in 1..Len(G) : Sorted(G[r]) = ListOfStr(Prefix(CHARS, Len(G)))

ColsComplete(G) ==
    \A i \in 0..(Len(G) - 1) :
        Sorted(Column(G, i)) = ListOfStr(Prefix(CHARS, Len(G)))

SubsquaresComplete(G) ==
    LET n == Len(G)
        m == IntSqrt(n)
    IN  \A x \in RangeStep(n, m) : \A y \in RangeStep(n, m) :
            Sorted(SubsquareItems(G, x, y, m)) = ListOfStr(Prefix(CHARS, n))

is_solved(G) ==
    IF ~NoEmptyCells(G) THEN FALSE
    ELSE IF ~RowsComplete(G) THEN FALSE
    ELSE IF ~ColsComplete(G) THEN FALSE
    ELSE IF ~SubsquaresComplete(G) THEN FALSE
    ELSE TRUE

----------------------------------------------------------------------------
(* _possible_letters: lines 238-269.  lst_impossible is only ever tested   *)
(* for membership, so it is kept as the set of its elements.               *)

\* lines 243-245: the non-empty cells of the row
RowImpossible(G, row_index) ==
    {G[row_index + 1][k] : k \in 1..Len(G[row_index + 1])} \ {<<>>}

\* a slip in lines 248-250: the row with index col_index is scanned
ColImpossibleScansRow(G, col_index) ==
    {G[col_index + 1][k] : k \in 1..Len(G)} \ {<<>>}

\* lines 248-250: the non-empty cells of the column
ColImpossible(G, col_index) ==
    {G[k][col_index + 1] : k \in 1..Len(G)} \ {<<>>}

\* a slip in line 256: start_col is computed from row_index
SubsquareImpossibleRowTwice(G, row_index, col_index) ==
    LET m == IntSqrt(Len(G))
        start_row == (row_index \div m) * m
        start_col == (row_index \div m) * m
    IN  {G[start_row + row + 1][start_col + col + 1] :
            row \in 0..(m - 1), col \in 0..(m - 1)} \ {<<>>}

\* lines 253-263: the non-empty cells of the subsquare
SubsquareImpossible(G, row_index, col_index) ==
    LET m == IntSqrt(Len(G))
        start_row == (row_index \div m) * m
        start_col == (col_index \div m) * m
    IN  {G[start_row + row + 1][start_col + col + 1] :
            row \in 0..(m - 1), col \in 0..(m - 1)} \ {<<>>}

\* a slip in line 238: the choice stops one letter short
_possible_letters_short(G, row_index, col_index) ==
    LET lst_choice == ListOfStr(Prefix(CHARS, Len(G) - 1))
        lst_impossible == RowImpossible(G, row_index)
                            \cup ColImpossible(G, col_index)
                            \cup SubsquareImpossible(G, row_index, col_index)
        Possible(char) == char \notin lst_impossible
    IN  SelectSeq(lst_choice, Possible)

_possible_letters(G, row_index, col_index) ==
    LET lst_choice == ListOfStr(Prefix(CHARS, Len(G)))
        lst_impossible == RowImpossible(G, row_index)
                            \cup ColImpossible(G, col_index)
                            \cup SubsquareImpossible(G, row_index, col_index)
        Possible(char) == char \notin lst_impossible
    IN  SelectSeq(lst_choice, Possible)

----------------------------------------------------------------------------
(* _extend: lines 375-377.  Returns the heap after the call and the new    *)
(* puzzle's grid (its row addresses).                                      *)

\* a slip in line 375: the rows are not copied (new_grid = self._grid)
CopyRowsAliased(h, g) == [heap |-> h, grid |-> g]

\* [row.copy() for row in self._grid]: fresh rows holding the same cells
CopyRows(h, g) ==
    LET base == NextAddr(h)
        new_grid == [i \in 1..Len(g) |-> base + i - 1]
    IN  [heap |-> [a \in (DOMAIN h) \cup {new_grid[i] : i \in 1..Len(g)} |->
                      IF a \in DOMAIN h THEN h[a] ELSE h[g[a - base + 1]]],
         grid |-> new_grid]

\* a slip in line 376: the indices are swapped
_extend_swapped(h, g, letter, row_index, col_index) ==
    LET copied == CopyRows(h, g)
        new_grid == copied.grid
    IN  [heap |-> [copied.heap EXCEPT ![new_grid[col_index + 1]][row_index + 1] = letter],
         grid |-> new_grid]

_extend(h, g, letter, row_index, col_index) ==
    LET copied == CopyRows(h, g)
        new_grid == copied.grid
    IN  [heap |-> [copied.heap EXCEPT ![new_grid[row_index + 1]][col_index + 1] = letter],
         grid |-> new_grid]

----------------------------------------------------------------------------
(* extensions: lines 201-215.                                              *)

\* lines 203-207: rows that hold an empty cell
RowsWithEmpty(G) == {i \in 0..(Len(G) - 1) : ListIn(<<>>, G[i + 1])}

\* the first such row, and the first empty cell in it
FirstEmpty(G) ==
    LET i == CHOOSE i \in RowsWithEmpty(G) : \A j \in RowsWithEmpty(G) : i <= j
    IN  <<i, IndexOf(G[i + 1], <<>>)>>

\* lines 214-215: one _extend call per letter, in list order
RECURSIVE ExtendEach(_, _, _, _, _)
ExtendEach(h, g, letters, row_index, col_index) ==
    IF letters = <<>> THEN [heap |-> h, list |-> <<>>]
    ELSE LET first == _extend(h, g, letters[1], row_index, col_index)
             rest == ExtendEach(first.heap, g, Tail(letters), row_index, col_index)
         IN  [heap |-> rest.heap, list |-> <<first.grid>> \o rest.list]

extensions(h, g) ==
    LET G == GridOf(h, g)
    IN  IF RowsWithEmpty(G) = {} THEN [heap |-> h, list |-> <<>>]
        ELSE LET cell == FirstEmpty(G)
                 letters == _possible_letters(G, cell[1], cell[2])
             IN  ExtendEach(h, g, letters, cell[1], cell[2])

----------------------------------------------------------------------------
(* move: lines 298-343.  mv is the str <move>; x is the 0-based loop       *)
(* index, so move[x] is mv[x + 1].                                         *)

\* a slip in line 317: row = move[x] where row += move[x] is meant
RECURSIVE RowLoopLastDigit(_, _, _, _)
RowLoopLastDigit(mv, x, found_number, row) ==
    IF x >= Len(mv) THEN [row |-> row, row_end |-> 0, found_number |-> found_number]
    ELSE IF found_number /\ ~StrIn(<<mv[x + 1]>>, NUMBERS)
         THEN [row |-> row, row_end |-> x, found_number |-> FALSE]
    ELSE RowLoopLastDigit(mv, x + 1,
                          found_number \/ mv[x + 1] = "(",
                          IF found_number THEN <<mv[x + 1]>> ELSE row)

\* lines 308-320: the loop that reads the row digits.  Yields row, row_end
\* and found_number as they stand when the loop ends or breaks.
RECURSIVE RowLoop(_, _, _, _)
RowLoop(mv, x, found_number, row) ==
    IF x >= Len(mv) THEN [row |-> row, row_end |-> 0, found_number |-> found_number]
    ELSE IF found_number /\ ~StrIn(<<mv[x + 1]>>, NUMBERS)
         THEN [row |-> row, row_end |-> x, found_number |-> FALSE]
    ELSE RowLoop(mv, x + 1,
                 found_number \/ mv[x + 1] = "(",
                 IF found_number THEN row \o <<mv[x + 1]>> ELSE row)

\* lines 326-336: the loop that reads the column digits; yields col
RECURSIVE ColLoop(_, _, _, _)
ColLoop(mv, x, found_number, col) ==
    IF x >= Len(mv) THEN col
    ELSE IF found_number /\ ~StrIn(<<mv[x + 1]>>, NUMBERS) THEN col
    ELSE ColLoop(mv, x + 1,
                 found_number \/ (mv[x + 1] = " " /\ x > 0 /\ mv[x] = ","),
                 IF found_number THEN col \o <<mv[x + 1]>> ELSE col)

\* lines 301-303: a capital letter before the last character
LetterBeforeLast(mv) ==
    \E i \in 1..(Len(mv) - 1) : StrIn(<<mv[i]>>, CHARS)

ValueError(h) == [heap |-> h, kind |-> "error", grid |-> <<>>]

move(h, g, mv) ==
    LET n == SizeOf(g)
        G == GridOf(h, g)
        last == <<mv[Len(mv)]>>
    IN  IF Len(mv) < 11 \/ ~StrIn(last, Prefix(CHARS, n)) THEN ValueError(h)
        ELSE IF LetterBeforeLast(mv) THEN ValueError(h)
        ELSE LET r == RowLoop(mv, 0, FALSE, <<>>)
             IN  IF r.row_end = 0 \/ r.row = <<>> \/ IntOfStr(r.row) >= n
                 THEN ValueError(h)
                 ELSE LET col == ColLoop(mv, r.row_end, r.found_number, <<>>)
                      IN  IF col = <<>> \/ IntOfStr(col) >= n THEN ValueError(h)
                          ELSE IF ~ListIn(last, _possible_letters(G, IntOfStr(r.row),
                                                                  IntOfStr(col)))
                               THEN ValueError(h)
                          ELSE LET e == _extend(h, g, last, IntOfStr(r.row),
                                                IntOfStr(col))
                               IN  [heap |-> e.heap, kind |-> "state", grid |-> e.grid]

----------------------------------------------------------------------------
(* puzzle_to_hint: lines 391-396.  G is self._grid and NP is               *)
(* new_puzzle._grid, both as values.  The result is the returned str, or   *)
(* None when the loops end without a return.                               *)

\* line 393-394: the condition under which cell (x, y) is reported
HintCell(G, NP, x, y) ==
    G[x + 1][y + 1] = <<>> /\ StrIn(NP[x + 1][y + 1], Prefix(CHARS, Len(G)))

puzzle_to_hint(G, NP) ==
    LET n == Len(G)
        Hits == {k \in 0..(n * n - 1) : HintCell(G, NP, k \div n, k % n)}
    IN  IF Hits = {} THEN [kind |-> "None", str |-> <<>>]
        ELSE LET k == CHOOSE k \in Hits : \A j \in Hits : k <= j
                 x == k \div n
                 y == k % n
             IN  [kind |-> "str",
                  str |-> <<"(">> \o StrOfInt(x) \o <<",", " ">> \o StrOfInt(y)
                            \o <<")", " ", "-", ">", " ">> \o NP[x + 1][y + 1]]

----------------------------------------------------------------------------
(* Bounds of the model.                                                    *)

\* most holes left empty in an initial grid
MaxBlanks == 2

\* most results of move the caller goes on with in one run
MaxMoves == 1

----------------------------------------------------------------------------
(* Initial grids: the <grid> arguments of __init__ (lines 47-48).          *)

\* rows written as sequences of characters, "" for an empty cell
MkGrid(rows) ==
    [i \in 1..Len(rows) |->
        [j \in 1..Len(rows[i]) |-> IF rows[i][j] = "" THEN <<>> ELSE <<rows[i][j]>>]]

\* the solved grid of the doctests (lines 125-128)
Solved4 == MkGrid(<< <<"A","B","C","D">>, <<"C","D","A","B">>,
                     <<"B","A","D","C">>, <<"D","C","B","A">> >>)

\* the unsolved grid of the doctest (lines 131-134): rows complete, columns not
Doctest4 == MkGrid(<< <<"A","B","C","D">>, <<"C","D","A","B">>,
                      <<"B","D","A","C">>, <<"D","C","B","A">> >>)

\* rows and columns complete, subsquares not
Latin4 == MkGrid(<< <<"A","B","C","D">>, <<"B","C","D","A">>,
                    <<"C","D","A","B">>, <<"D","A","B","C">> >>)

\* rows and subsquares complete, columns not
RowsSquares4 == MkGrid(<< <<"A","B","C","D">>, <<"C","D","A","B">>,
                          <<"A","B","C","D">>, <<"C","D","A","B">> >>)

\* columns and subsquares complete, rows not
ColsSquares4 == MkGrid(<< <<"A","C","A","C">>, <<"B","D","B","D">>,
                          <<"C","A","C","A">>, <<"D","B","D","B">> >>)

\* a solved 16-by-16 grid: two-digit row and column indices
Solved16 ==
    [i \in 1..16 |-> [j \in 1..16 |->
        <<CHARS[((4 * ((i - 1) % 4) + ((i - 1) \div 4) + (j - 1)) % 16) + 1]>>]]

\* the cells of a 4-by-4 grid that initial grids may leave empty
Holes4 == {<<0, 1>>, <<2, 0>>, <<2, 2>>, <<2, 3>>, <<3, 2>>, <<3, 3>>}

\* the cells of the 16-by-16 grid that initial grids may leave empty
Holes16 == {<<9, 9>>, <<9, 10>>, <<10, 9>>, <<10, 12>>, <<15, 15>>}

Cells(G) == (0..(Len(G) - 1)) \X (0..(Len(G) - 1))

\* G with the cells of H emptied
Blanked(G, H) ==
    [i \in 1..Len(G) |-> [j \in 1..Len(G) |->
        IF <<i - 1, j - 1>> \in H THEN <<>> ELSE G[i][j]]]

UpTo(S, k) == {H \in SUBSET S : Cardinality(H) <= k}

\* four cells of the solved grid holding A C / C A: emptied, they leave a
\* grid with two solved completions
Swap4 == {<<0, 0>>, <<0, 2>>, <<1, 0>>, <<1, 2>>}

\* row 0, column 0 and the rest of their subsquare: the first empty cell
\* (0, 0) then has no letter in its row, column or subsquare
Corner(G) == {c \in Cells(G) : c[1] = 0 \/ c[2] = 0} \cup {<<1, 1>>}

InconsistentGrids ==
    {Blanked(B, H) : B \in {Doctest4, Latin4, RowsSquares4, ColsSquares4},
                     H \in UpTo(Holes4, 1)}

ConsistentGrids ==
    {Blanked(Solved4, H) : H \in UpTo(Holes4, MaxBlanks)}
    \cup {Blanked(Solved4, Swap4), Blanked(Solved4, Corner(Solved4))}
    \cup {Blanked(Solved16, H) : H \in UpTo(Holes16, MaxBlanks)}

InitialGrids == ConsistentGrids \cup InconsistentGrids

----------------------------------------------------------------------------
(* Inputs of move: descriptions in the format "(R, C) -> S" and            *)
(* descriptions that deviate from it in one part.                          *)

Parts(r, c, t) ==
    [pre |-> <<>>, open |-> <<"(">>, R |-> StrOfInt(r), sep |-> <<",", " ">>,
     C |-> StrOfInt(c), close |-> <<")">>, arrow |-> <<" ", "-", ">", " ">>, S |-> t]

Join(p) == p.pre \o p.open \o p.R \o p.sep \o p.C \o p.close \o p.arrow \o p.S

\* "(r, c) -> t"
Fmt(r, c, t) == Join(Parts(r, c, t))

\* p with one part replaced: a leading blank, another opening bracket, no
\* digits or a sign where R stands, no ", ", no digits or a trailing
\* character where C stands, no closing bracket, no " -> ", a small letter
Deviations(p) ==
    {[p EXCEPT !.pre = <<" ">>],
     [p EXCEPT !.open = <<"[">>],
     [p EXCEPT !.R = <<"x">>], [p EXCEPT !.R = <<"-", "1">>],
     [p EXCEPT !.sep = <<" ", " ">>],
     [p EXCEPT !.C = <<"x">>], [p EXCEPT !.C = p.C \o <<"x">>],
     [p EXCEPT !.close = <<" ">>],
     [p EXCEPT !.arrow = <<" ", " ", " ", " ">>],
     [p EXCEPT !.S = <<"a">>]}

\* the first n letters
LetterInputs(n) == {<<CHARS[i]>> : i \in 1..n}

\* the cells addressed: every cell of a 4-by-4 board; on a larger board the
\* holes and one filled cell
CellInputs(n) ==
    IF n = Len(Solved4) THEN (0..(n - 1)) \X (0..(n - 1))
    ELSE Holes16 \cup {<<3, 3>>}

\* cells outside the board
OutsideCells(n) == {<<n, 0>>, <<0, n>>, <<n, n>>, <<n + 6, n - 1>>}

\* the cell the deviating descriptions address: the first empty cell, or
\* cell (0, 0) of a full grid
DeviationCell(G) == IF RowsWithEmpty(G) = {} THEN <<0, 0>> ELSE FirstEmpty(G)

MoveInputs(G) ==
    LET n == Len(G)
        d == DeviationCell(G)
    IN  {Fmt(rc[1], rc[2], t) : rc \in CellInputs(n) \cup OutsideCells(n),
                                t \in LetterInputs(n)}
        \cup {Fmt(d[1], d[2], <<CHARS[n + 1]>>)}
        \cup UNION {{Join(x) : x \in Deviations(Parts(d[1], d[2], t))} :
                       t \in LetterInputs(n)}

\* inputs of puzzle_to_hint: G with one empty cell filled with one of the
\* first n letters
HintInputs(G) ==
    {[G EXCEPT ![rc[1] + 1][rc[2] + 1] = t] :
        rc \in {x \in Cells(G) : G[x[1] + 1][x[2] + 1] = <<>>},
        t \in LetterInputs(Len(G))}

----------------------------------------------------------------------------
(* The state machine: a caller holds one puzzle (self), calls one method   *)
(* on it, and then either keeps it or goes on with a returned puzzle.      *)

NoRet == [kind |-> "none", bool |-> FALSE, list |-> <<>>, str |-> <<>>]

\* a puzzle with grid value G as the only object: rows at addresses 1..n
HeapOf(G) == [a \in 1..Len(G) |-> G[a]]

RefOf(G) == [i \in 1..Len(G) |-> i]

InitWith(Grids) ==
    \E G \in Grids :
        /\ heap = HeapOf(G)
        /\ self = RefOf(G)
        /\ pc = "idle"
        /\ op = "init"
        /\ move_arg = <<>>
        /\ new_puzzle = <<>>
        /\ ret = NoRet
        /\ moves = 0

Init == InitWith(InitialGrids)

InitConsistent == InitWith(ConsistentGrids)

IsSolvedCall ==
    /\ pc = "idle"
    /\ pc' = "done"
    /\ op' = "is_solved"
    /\ ret' = [NoRet EXCEPT !.kind = "bool", !.bool = is_solved(GridOf(heap, self))]
    /\ UNCHANGED <<heap, self, move_arg, new_puzzle, moves>>

ExtensionsCall ==
    /\ pc = "idle"
    /\ LET res == extensions(heap, self)
       IN  /\ heap' = res.heap
           /\ ret' = [NoRet EXCEPT !.kind = "list", !.list = res.list]
    /\ pc' = "done"
    /\ op' = "extensions"
    /\ UNCHANGED <<self, move_arg, new_puzzle, moves>>

MoveCall ==
    /\ pc = "idle"
    /\ \E mv \in MoveInputs(GridOf(heap, self)) :
          LET res == move(heap, self, mv)
          IN  /\ heap' = res.heap
              /\ ret' = [NoRet EXCEPT !.kind = res.kind,
                                      !.list = IF res.kind = "state"
                                               THEN <<res.grid>> ELSE <<>>]
              /\ move_arg' = mv
    /\ pc' = "done"
    /\ op' = "move"
    /\ UNCHANGED <<self, new_puzzle, moves>>

HintCall ==
    /\ pc = "idle"
    /\ \E NP \in HintInputs(GridOf(heap, self)) :
          LET res == puzzle_to_hint(GridOf(heap, self), NP)
          IN  /\ ret' = [NoRet EXCEPT !.kind = res.kind, !.str = res.str]
              /\ new_puzzle' = NP
    /\ pc' = "done"
    /\ op' = "puzzle_to_hint"
    /\ UNCHANGED <<heap, self, move_arg, moves>>

\* the caller drops the result and keeps the puzzle it holds
Keep ==
    /\ pc = "done"
    /\ heap' = [a \in {self[i] : i \in 1..Len(self)} |-> heap[a]]
    /\ pc' = "idle"
    /\ move_arg' = <<>>
    /\ new_puzzle' = <<>>
    /\ ret' = NoRet
    /\ UNCHANGED <<self, op, moves>>

\* the caller goes on with one of the puzzles extensions returned; the
\* others, and the puzzle it held, are dropped
SelectChild ==
    /\ pc = "done"
    /\ op = "extensions"
    /\ \E i \in 1..Len(ret.list) :
          /\ heap' = HeapOf(GridOf(heap, ret.list[i]))
          /\ self' = RefOf(ret.list[i])
    /\ pc' = "idle"
    /\ move_arg' = <<>>
    /\ new_puzzle' = <<>>
    /\ ret' = NoRet
    /\ UNCHANGED <<op, moves>>

\* the caller goes on with the puzzle move returned
SelectMoved ==
    /\ pc = "done"
    /\ op = "move"
    /\ ret.kind = "state"
    /\ moves < MaxMoves
    /\ heap' = HeapOf(GridOf(heap, ret.list[1]))
    /\ self' = RefOf(ret.list[1])
    /\ pc' = "idle"
    /\ move_arg' = <<>>
    /\ new_puzzle' = <<>>
    /\ ret' = NoRet
    /\ moves' = moves + 1
    /\ UNCHANGED op

Next ==
    \/ IsSolvedCall
    \/ ExtensionsCall
    \/ MoveCall
    \/ HintCall
    \/ Keep
    \/ SelectChild
    \/ SelectMoved

Spec == Init /\ [][Next]_vars

SpecConsistent == InitConsistent /\ [][Next]_vars

----------------------------------------------------------------------------
(* Vocabulary of the properties, stated on grid values and independent of  *)
(* the operators above.                                                    *)

\* the grid of the puzzle the caller holds
Self == GridOf(heap, self)

\* the grid of the i-th returned puzzle
Returned(i) == GridOf(heap, ret.list[i])

Letters(n) == {<<CHARS[i]>> : i \in 1..n}

\* the edge of a sub-block
Edge(n) == CHOOSE m \in 1..n : m * m = n

SameBlock(n, a, b) ==
    /\ a[1] \div Edge(n) = b[1] \div Edge(n)
    /\ a[2] \div Edge(n) = b[2] \div Edge(n)

\* a and b lie in one row, one column or one sub-block
Peers(n, a, b) == a[1] = b[1] \/ a[2] = b[2] \/ SameBlock(n, a, b)

At(G, a) == G[a[1] + 1][a[2] + 1]

\* the rows, the columns and the sub-blocks, each as a set of cells
Units(n) ==
    {{<<k, j>> : j \in 0..(n - 1)} : k \in 0..(n - 1)}
    \cup {{<<i, k>> : i \in 0..(n - 1)} : k \in 0..(n - 1)}
    \cup {{<<i * Edge(n) + x, j * Edge(n) + y>> :
              x \in 0..(Edge(n) - 1), y \in 0..(Edge(n) - 1)} :
             i \in 0..(Edge(n) - 1), j \in 0..(Edge(n) - 1)}

BlankCells(G) == {a \in Cells(G) : At(G, a) = <<>>}

\* every row, column and sub-block holds each of the first n letters
SolvedRef(G) == \A U \in Units(Len(G)) : {At(G, a) : a \in U} = Letters(Len(G))

\* no letter twice in a row, column or sub-block
ConsistentRef(G) ==
    \A U \in Units(Len(G)) : \A a \in U : \A b \in U :
        (a # b /\ At(G, a) # <<>>) => At(G, a) # At(G, b)

\* the letters consistent at cell a
ConsistentAt(G, a) ==
    Letters(Len(G)) \ {At(G, b) : b \in {x \in Cells(G) : Peers(Len(G), a, x)}}

\* the first blank cell in row-major order
FirstBlank(G) ==
    CHOOSE a \in BlankCells(G) :
        \A b \in BlankCells(G) : a[1] * Len(G) + a[2] <= b[1] * Len(G) + b[2]

\* the letters of S in ascending order
RECURSIVE Ascending(_)
Ascending(S) ==
    IF S = {} THEN <<>>
    ELSE LET least == CHOOSE x \in S : \A y \in S : Ord(x[1]) <= Ord(y[1])
         IN  <<least>> \o Ascending(S \ {least})

\* the cells in which two grids of one size differ
Diff(G, H) == {a \in Cells(G) : At(G, a) # At(H, a)}

\* the cells (r, c) that a description "(r, c) -> t" in the format addresses
Addressed(mv, n) ==
    IF mv = <<>> THEN {}
    ELSE LET t == <<mv[Len(mv)]>>
             Rs == {r \in 0..(n - 1) :
                       Prefix(mv, Len(StrOfInt(r)) + 2)
                           = <<"(">> \o StrOfInt(r) \o <<",">>}
         IN  {a \in Rs \X (0..(n - 1)) : mv = Fmt(a[1], a[2], t)}

\* the description is "(r, c) -> t" with r, c in [0, n) and t one of the
\* first n letters
InFormat(mv, n) ==
    /\ Addressed(mv, n) # {}
    /\ <<mv[Len(mv)]>> \in Letters(n)

\* the grids extensions returns for a puzzle with grid G
ExtGrids(G) ==
    LET res == extensions(HeapOf(G), RefOf(G))
    IN  {GridOf(res.heap, res.list[i]) : i \in 1..Len(res.list)}

\* the grids reached from G by k nested calls of extensions
RECURSIVE ReachK(_, _)
ReachK(G, k) ==
    IF k = 0 THEN {G} ELSE UNION {ReachK(C, k - 1) : C \in ExtGrids(G)}

\* the last blank cell in row-major order
LastBlank(G) ==
    CHOOSE a \in BlankCells(G) :
        \A b \in BlankCells(G) : a[1] * Len(G) + a[2] >= b[1] * Len(G) + b[2]

\* the solved grids that agree with G on its non-blank cells, enumerated
\* from the last blank cell backwards
RECURSIVE Completions(_)
Completions(G) ==
    IF BlankCells(G) = {} THEN (IF SolvedRef(G) THEN {G} ELSE {})
    ELSE LET a == LastBlank(G)
         IN  UNION {Completions([G EXCEPT ![a[1] + 1][a[2] + 1] = t]) :
                       t \in ConsistentAt(G, a)}

Called(name) == pc = "done" /\ op = name

----------------------------------------------------------------------------
(* The properties.                                                         *)

\* C1: move is rejected with ValueError whenever the cell the description
\* addresses is already filled, whatever letter the description names.
C1_FilledCellRejected ==
    Called("move") =>
        \A a \in Addressed(move_arg, Len(Self)) :
            (<<move_arg[Len(move_arg)]>> \in Letters(Len(Self)) /\ At(Self, a) # <<>>)
                => ret.kind = "error"

\* C2: is_solved returns true exactly when no cell is blank and every row,
\* column and sub-block is a permutation of the first n letters.
C2_IsSolvedIff ==
    Called("is_solved") =>
        /\ ret.kind = "bool"
        /\ ret.bool <=> (BlankCells(Self) = {} /\ SolvedRef(Self))

\* C2 witness: is_solved has answered true, and the grid is solved
C2_Witness == Called("is_solved") /\ ret.bool /\ SolvedRef(Self)

\* C2, second case reached: a full grid whose rows and sub-blocks are
\* complete and whose columns are not, answered false
C2_ColumnCase ==
    /\ Called("is_solved") /\ ~ret.bool /\ BlankCells(Self) = {}
    /\ \A U \in Units(Len(Self)) :
          (\E a \in U : \E b \in U : a[2] # b[2])
              => {At(Self, a) : a \in U} = Letters(Len(Self))

\* C3: extensions returns nothing for a grid without blank cell; otherwise
\* the letters its children place at the first blank cell are, in list
\* order, the letters consistent at that cell in ascending order.
C3_ExtensionsLetters ==
    Called("extensions") =>
        /\ ret.kind = "list"
        /\ IF BlankCells(Self) = {} THEN ret.list = <<>>
           ELSE LET a == FirstBlank(Self)
                IN  /\ [i \in 1..Len(ret.list) |-> At(Returned(i), a)]
                            = Ascending(ConsistentAt(Self, a))
                    /\ \A i \in 1..Len(ret.list) :
                          \A b \in BlankCells(Self) \ {a} : At(Returned(i), b) = <<>>

\* C3 witness: a grid with several blank cells, several children, and a
\* later blank cell whose consistent letters differ from the first one's
C3_Witness ==
    /\ Called("extensions")
    /\ Len(ret.list) >= 2
    /\ \E b \in BlankCells(Self) :
          /\ b # FirstBlank(Self)
          /\ ConsistentAt(Self, b) # ConsistentAt(Self, FirstBlank(Self))
          /\ Cardinality(ConsistentAt(Self, b)) # Len(ret.list)

\* C4: every child of extensions differs from the parent in exactly one
\* cell, blank in the parent and filled in the child; there are at most n
\* children and no two are equal.
C4_OneCellRefinement ==
    Called("extensions") =>
        /\ Len(ret.list) <= Len(Self)
        /\ \A i \in 1..Len(ret.list) :
              /\ Cardinality(Diff(Self, Returned(i))) = 1
              /\ \A a \in Diff(Self, Returned(i)) :
                    At(Self, a) = <<>> /\ At(Returned(i), a) # <<>>
        /\ \A i \in 1..Len(ret.list) : \A j \in 1..Len(ret.list) :
              i # j => Returned(i) # Returned(j)

\* C4 witness: extensions has returned n children
C4_Witness == Called("extensions") /\ Len(ret.list) = Len(Self)

\* C5: for new_puzzle equal to self except for one cell (r, c), blank in
\* self and holding t in new_puzzle, puzzle_to_hint returns "(r, c) -> t".
C5_HintNamesChangedCell ==
    Called("puzzle_to_hint") =>
        \A a \in Diff(Self, new_puzzle) :
            ret.kind = "str" /\ ret.str = Fmt(a[1], a[2], At(new_puzzle, a))

\* C6: for the first blank cell (r, c) and a letter t consistent there,
\* move("(r, c) -> t") succeeds and returns the grid of the child of
\* extensions that places t at (r, c).
C6_MoveEqualsExtension ==
    (Called("move") /\ BlankCells(Self) # {}) =>
        LET a == FirstBlank(Self)
        IN  \A t \in ConsistentAt(Self, a) :
                move_arg = Fmt(a[1], a[2], t) =>
                    /\ ret.kind = "state"
                    /\ At(Returned(1), a) = t
                    /\ Returned(1) \in ExtGrids(Self)

\* C6 witness: such a move with a two-digit row and a two-digit column
C6_Witness ==
    /\ Called("move") /\ BlankCells(Self) # {}
    /\ FirstBlank(Self)[1] >= 10 /\ FirstBlank(Self)[2] >= 10
    /\ \E t \in ConsistentAt(Self, FirstBlank(Self)) :
          move_arg = Fmt(FirstBlank(Self)[1], FirstBlank(Self)[2], t)
    /\ ret.kind = "state"

\* C7: no call changes a cell of the puzzle it is made on, and a rejected
\* move allocates nothing and returns no puzzle.
C7_ReceiverUnchanged ==
    [][pc = "idle" =>
        /\ GridOf(heap', self') = GridOf(heap, self)
        /\ ret'.kind = "error" => (heap' = heap /\ ret'.list = <<>>)]_vars

\* C7 witness: move has succeeded on a puzzle and returned another one
C7_Witness ==
    Called("move") /\ ret.kind = "state" /\ Returned(1) # Self

\* C8: move raises ValueError for every description that is not of the
\* form "(R, C) -> S" with R, C in [0, n) and S one of the first n letters.
C8_OnlyFormatAccepted ==
    Called("move") => (~InFormat(move_arg, Len(Self)) => ret.kind = "error")

\* C9: started on a grid with no letter twice in a row, column or
\* sub-block, every puzzle reached through extensions and move is such a
\* grid, and is_solved holds of every one without blank cell.
C9_ConsistencyKept ==
    /\ pc = "idle" =>
          /\ ConsistentRef(Self)
          /\ BlankCells(Self) = {} => is_solved(Self)
    /\ pc = "done" =>
          \A i \in 1..Len(ret.list) :
              /\ ConsistentRef(Returned(i))
              /\ BlankCells(Returned(i)) = {} => is_solved(Returned(i))

\* C9 witness: a full grid reached through extensions and a move
C9_Witness ==
    /\ pc = "idle" /\ moves >= 1 /\ op = "extensions"
    /\ BlankCells(Self) = {}

\* C10: every solved grid that agrees with a grid on its non-blank cells is
\* reached from it by as many nested calls of extensions as it has blank
\* cells.
C10_SearchComplete ==
    pc = "idle" =>
        Completions(Self) \subseteq ReachK(Self, Cardinality(BlankCells(Self)))

\* C10 witness: a grid reached by extensions with blank cells left, on
\* which the search branches and which has a solved completion
C10_Witness ==
    /\ pc = "idle" /\ op = "extensions"
    /\ Cardinality(BlankCells(Self)) >= 4
    /\ Cardinality(ExtGrids(Self)) >= 2
    /\ Completions(Self) # {}

\* C10, second case reached: a grid with two solved completions
C10_TwoCompletions == pc = "idle" /\ Cardinality(Completions(Self)) >= 2

====
